---- MODULE Spec2Model ----
(***************************************************************************)
(* Model of the Plate-Planner back-end of dine-nd                          *)
(* (src/plate_planner/endpoint.py): the /plan-plate request handler, its    *)
(* helpers parse_num, safe_json, score_plate, gpt_choose_plate, handle_any *)
(* and the memoised OpenAI client.                                         *)
(*                                                                         *)
(* Numbers.  Serving multipliers are 0.5, 1.0, 1.5, 2.0 and the macros are *)
(* integers, so every plate total is a multiple of 0.5 and every squared   *)
(* error a multiple of 0.25 (all exact in binary floating point).  The     *)
(* model keeps servings and totals in HALVES (0.5 is 1, 2.0 is 4) and      *)
(* squared errors in QUARTERS; Half converts an integer to halves.         *)
(***************************************************************************)
EXTENDS Integers, Sequences, FiniteSets, TLC

\* ---- bounds of the model --------------------------------------------------
\* stands for the [:20] slice of the Pinecone matches (endpoint.py:275)
MaxCand == 4

\* ---- program constants ----------------------------------------------------
SERVING_OPTIONS == <<1, 2, 3, 4>>      \* [0.5, 1.0, 1.5, 2.0] in halves
MAX_GPT_PLATES == 30
TOLERANCE_PCT == 10                    \* TOLERANCE = 0.10, in percent
TOP_OPTS == 10                         \* scored[:10]
MACROS == <<"calories", "protein", "carbs", "fat">>
PLATE_SIZES == <<2, 3, 4>>             \* for r in (2, 3, 4)

Half(n) == 2 * n
Abs(n) == IF n < 0 THEN -n ELSE n
\* a slice whose bound is ignored
Min_first(a, b) == a
Min(a, b) == IF a < b THEN a ELSE b
Digits == <<"0", "1", "2", "3", "4", "5", "6", "7", "8", "9">>

\* ---- JSON-ish values ------------------------------------------------------
\* A number or a string of characters, or a value of another type (None, a
\* list ...), as it may sit in Pinecone metadata.
Num(n) == [t |-> "num", n |-> n, s |-> <<>>]
Str(s) == [t |-> "str", n |-> 0, s |-> s]
Other == [t |-> "other", n |-> 0, s |-> <<>>]

IsDigit(c) == \E i \in 1..10 : Digits[i] = c
DigitVal(c) == (CHOOSE i \in 1..10 : Digits[i] = c) - 1

\* value of the digit run of s that starts at position i, given the value
\* acc of the digits already read
RECURSIVE DigitRun(_, _, _)
DigitRun(s, i, acc) ==
    IF i > Len(s) \/ ~IsDigit(s[i]) THEN acc
    ELSE DigitRun(s, i + 1, 10 * acc + DigitVal(s[i]))

\* re.search(r"\d+", x): the leftmost digit run, or 0 when there is none
FirstDigitRun(s) ==
    IF \E i \in 1..Len(s) : IsDigit(s[i])
    THEN LET first == CHOOSE i \in 1..Len(s) :
                         IsDigit(s[i]) /\ \A j \in 1..(i - 1) : ~IsDigit(s[j])
         IN  DigitRun(s, first, 0)
    ELSE 0

parse_num(x) ==
    IF x.t = "num" THEN x.n
    ELSE IF x.t = "str" THEN FirstDigitRun(x.s)
    ELSE 0

\* dict.get(key, default)
DictGet(d, key, default) == IF key \in DOMAIN d THEN d[key] ELSE default

\* ---- itertools ------------------------------------------------------------
RECURSIVE Flatten(_)
Flatten(ss) == IF ss = <<>> THEN <<>> ELSE Head(ss) \o Flatten(Tail(ss))

\* combinations(range(lo, n+1), r) in itertools order (lexicographic in the
\* positions of the input list)
RECURSIVE CombosFrom(_, _, _)
CombosFrom(lo, n, r) ==
    IF r = 0 THEN << <<>> >>
    ELSE IF n - lo + 1 < r THEN <<>>
    ELSE LET rest == CombosFrom(lo + 1, n, r - 1)
         IN  [k \in 1..Len(rest) |-> <<lo>> \o rest[k]] \o CombosFrom(lo + 1, n, r)

\* product(SERVING_OPTIONS, repeat=r) in itertools order (last position
\* varies fastest)
RECURSIVE ProductOf(_)
ProductOf(r) ==
    IF r = 0 THEN << <<>> >>
    ELSE LET rest == ProductOf(r - 1)
         IN  Flatten([a \in 1..Len(SERVING_OPTIONS) |->
                        [k \in 1..Len(rest) |-> <<SERVING_OPTIONS[a]>> \o rest[k]]])

CombTable == [n \in 0..(MaxCand + 1) |-> [r \in 2..4 |-> CombosFrom(1, n, r)]]
ProdTable == [r \in 2..4 |-> ProductOf(r)]

\* combinations(candidates, r) as position tuples; product(...) as tuples
combinations(n, r) == CombTable[n][r]
product(r) == ProdTable[r]

\* ---- score_plate ----------------------------------------------------------
\* plate: sequence of <<item, servings(halves)>>; returns <<err(quarters),
\* totals(halves)>>
RECURSIVE AddItems(_, _, _)
AddItems(totals, plate, i) ==
    IF i > Len(plate) THEN totals
    ELSE AddItems([k \in DOMAIN totals |->
                      totals[k] + DictGet(plate[i][1], k, 0) * plate[i][2]],
                  plate, i + 1)

RECURSIVE SumErr(_, _, _)
SumErr(totals, targets, i) ==
    IF i > Len(MACROS) THEN 0
    ELSE LET k == MACROS[i]
         IN  (IF targets[k] # 0
                THEN (totals[k] - Half(targets[k])) * (totals[k] - Half(targets[k]))
                ELSE 0)
             + SumErr(totals, targets, i + 1)

\* score_plate without the "if targets[k]" filter
score_plate_unfiltered(plate, targets) ==
    LET totals == AddItems([k \in DOMAIN targets |-> 0], plate, 1)
        sq(k)  == (totals[k] - Half(targets[k])) * (totals[k] - Half(targets[k]))
    IN  <<sq("calories") + sq("protein") + sq("carbs") + sq("fat"), totals>>

score_plate(plate, targets) ==
    LET totals == AddItems([k \in DOMAIN targets |-> 0], plate, 1)
    IN  <<SumErr(totals, targets, 1), totals>>

\* ---- the Pinecone index and the requests (bounded inputs) ------------------
\* Each record is one vector of the index: its id "hall|meal|category|dish" (as
\* the sequence of its "|"-separated segments) and its metadata.  Two records
\* carry the same dish name "A" (the same dish served at two stations).
INDEX ==
    << [id |-> <<"NDH", "Lunch", "Homestyle", "A">>,
        metadata |-> [serving_size |-> "1 each", calories |-> Num(200),
                      protein |-> Str(<<"2", "0", "g">>),
                      total_carbohydrate |-> Str(<<"3", "0", " ", "g">>),
                      total_fat |-> Num(5)]],
       [id |-> <<"NDH", "Lunch", "Homestyle", "B">>,
        metadata |-> [serving_size |-> "1 cup",
                      calories |-> Str(<<"3", "0", "0", " ", "k", "c", "a", "l">>),
                      protein |-> Num(10), total_carbohydrate |-> Num(40),
                      total_fat |-> Str(<<"1", "0", "g">>)]],
       [id |-> <<"NDH", "Lunch", "Salad", "C">>,
        metadata |-> [calories |-> Num(100), protein |-> Num(5),
                      total_fat |-> Str(<<>>)]],
       [id |-> <<"NDH", "Lunch", "Grill", "D">>,
        metadata |-> [serving_size |-> "4 oz", calories |-> Num(250),
                      protein |-> Num(25), total_carbohydrate |-> Num(20),
                      total_fat |-> Other]],
       [id |-> <<"NDH", "Lunch", "Grill", "A">>,
        metadata |-> [serving_size |-> "1 each", calories |-> Num(150),
                      protein |-> Num(15), total_carbohydrate |-> Num(10),
                      total_fat |-> Num(5)]] >>

\* the result of index.query(...): the records that pass the filter, in
\* index order
RECURSIVE Pick(_, _)
Pick(S, i) ==
    IF i > Len(INDEX) THEN <<>>
    ELSE (IF i \in S THEN <<INDEX[i]>> ELSE <<>>) \o Pick(S, i + 1)

\* the sets of vectors the index may hold when it is queried
IndexStates == SUBSET (1..Len(INDEX))

\* filter = {"hall": hall, "meal": meal}: equality on the metadata, which
\* embed_menu.py writes from the same hall and meal as the id
filter_pass(rec, hall, meal) == rec.id[1] = hall /\ rec.id[2] = meal

\* index.query(vector, top_k, filter) over the vectors S
query(S, hall, meal) == SelectSeq(Pick(S, 1), LAMBDA rec : filter_pass(rec, hall, meal))

\* request bodies: a JSON object is a function on the keys it has
Requests ==
    { [hall |-> "NDH", meal |-> "Lunch", calorieTarget |-> 500, proteinTarget |-> 30],
      [hall |-> "NDH", meal |-> "Lunch"],
      [hall |-> "NDH", meal |-> "Lunch", carbTarget |-> 40, fatTarget |-> 10],
      [meal |-> "Lunch", calorieTarget |-> 500],
      [hall |-> "NDH", proteinTarget |-> 30],
      [hall |-> "ndh", meal |-> "Lunch", calorieTarget |-> 500, proteinTarget |-> 30] }

\* ---- safe_json, handle_any ------------------------------------------------
\* default is <<>> for None and <<v>> for the default v
\* safe_json that never raises: a missing key gives 0
safe_json_lenient(data, key, default) ==
    [exc |-> "", value |-> IF key \in DOMAIN data THEN data[key] ELSE 0]

safe_json(data, key, default) ==
    IF key \notin DOMAIN data /\ default = <<>>
    THEN [exc |-> "BadRequest", value |-> 0]
    ELSE [exc |-> "", value |-> IF key \in DOMAIN data THEN data[key] ELSE default[1]]

ErrorBody == [type |-> "error", keys |-> {"error"}, items |-> <<>>,
              totals |-> [k \in {} |-> 0]]

\* handle_any with the isinstance tests only: no test of the type's name
handle_any_isinstance_only(err) ==
    IF err = "BadRequest" THEN [status |-> 400, body |-> ErrorBody]
    ELSE IF err \in {"MenuFetchError", "RequestException", "URLError"}
    THEN [status |-> 503, body |-> ErrorBody]
    ELSE IF err = "InfeasiblePlateError" THEN [status |-> 422, body |-> ErrorBody]
    ELSE [status |-> 500, body |-> ErrorBody]

\* err is the class of the exception: "BadRequest", "MenuFetchError",
\* "RequestException", "URLError", "openai", "pinecone" (a class of those
\* packages), "InfeasiblePlateError", or anything else
handle_any(err) ==
    IF err = "BadRequest" THEN [status |-> 400, body |-> ErrorBody]
    ELSE IF err \in {"MenuFetchError", "RequestException", "URLError"}
    THEN [status |-> 503, body |-> ErrorBody]
    ELSE IF err \in {"openai", "pinecone"} THEN [status |-> 503, body |-> ErrorBody]
    ELSE IF err = "InfeasiblePlateError" THEN [status |-> 422, body |-> ErrorBody]
    ELSE [status |-> 500, body |-> ErrorBody]

\* ---- candidates (endpoint.py:277-288) --------------------------------------
Last(s) == s[Len(s)]

candidate_of(m) ==
    [name        |-> Last(m.id),
     servingSize |-> DictGet(m.metadata, "serving_size", ""),
     calories    |-> parse_num(DictGet(m.metadata, "calories", Num(0))),
     protein     |-> parse_num(DictGet(m.metadata, "protein", Num(0))),
     carbs       |-> parse_num(DictGet(m.metadata, "total_carbohydrate", Num(0))),
     fat         |-> parse_num(DictGet(m.metadata, "total_fat", Num(0)))]

\* matches[:20], then one candidate per match
candidates_of(matches) ==
    [i \in 1..Min(Len(matches), MaxCand) |-> candidate_of(matches[i])]

\* the bound past the entries equal to x: equal scores of b go before a's
RECURSIVE upper_bound(_, _, _, _)
upper_bound(b, x, lo, hi) ==
    IF lo > hi THEN lo
    ELSE LET mid == (lo + hi) \div 2
         IN  IF b[mid].score <= x THEN upper_bound(b, x, mid + 1, hi)
             ELSE upper_bound(b, x, lo, mid - 1)

\* ---- sorting ---------------------------------------------------------------
\* list.sort(key=score): stable, ascending.
\* lower_bound: the first position of lo..hi+1 in the sorted b whose score is
\* not below x
RECURSIVE lower_bound(_, _, _, _)
lower_bound(b, x, lo, hi) ==
    IF lo > hi THEN lo
    ELSE LET mid == (lo + hi) \div 2
         IN  IF b[mid].score < x THEN lower_bound(b, x, mid + 1, hi)
             ELSE lower_bound(b, x, lo, mid - 1)

\* merge of the sorted runs a and b, a's entries first among equal scores
RECURSIVE Merge(_, _)
Merge(a, b) ==
    IF a = <<>> THEN b
    ELSE IF b = <<>> THEN a
    ELSE LET h == (Len(a) + 1) \div 2
             p == lower_bound(b, a[h].score, 1, Len(b)) - 1
         IN  Merge(SubSeq(a, 1, h - 1), SubSeq(b, 1, p)) \o <<a[h]>>
             \o Merge(SubSeq(a, h + 1, Len(a)), SubSeq(b, p + 1, Len(b)))

\* no sort at all
sort_skipped(s) == s

RECURSIVE sort_by_score(_)
sort_by_score(s) ==
    IF Len(s) <= 1 THEN s
    ELSE LET h == Len(s) \div 2
         IN  Merge(sort_by_score(SubSeq(s, 1, h)), sort_by_score(SubSeq(s, h + 1, Len(s))))

\* ---- payload and ranker -----------------------------------------------------
JObject(items, totals) ==
    [type |-> "object", keys |-> {"items", "totals"}, items |-> items, totals |-> totals]
JEmptyObject == [type |-> "object", keys |-> {}, items |-> <<>>, totals |-> [k \in {} |-> 0]]
JString == [type |-> "string", keys |-> {}, items |-> <<>>, totals |-> [k \in {} |-> 0]]
JArray == [type |-> "array", keys |-> {}, items |-> <<>>, totals |-> [k \in {} |-> 0]]
NoReply == [type |-> "exception", keys |-> {}, items |-> <<>>, totals |-> [k \in {} |-> 0]]

\* one entry of opts_payload (endpoint.py:311-316)
payload_of(opt) ==
    JObject([i \in 1..Len(opt.plate) |->
                [name        |-> opt.plate[i][1].name,
                 servings    |-> opt.plate[i][2],
                 servingSize |-> opt.plate[i][1].servingSize]],
            opt.sums)

ForeignItem == [name |-> "Z", servings |-> 2, servingSize |-> "1 each"]

\* what the chat completion may come back with for the prompt listing plates:
\* no usable reply (network error, exception, text that is not JSON), or a
\* JSON value: one of the plates, a plate with other totals, a plate with a
\* dish that was not offered, a plate with an item added, or another shape.
RankerReplies(plates) ==
    {NoReply, JString, JArray, JEmptyObject}
    \cup {plates[i] : i \in 1..Len(plates)}
    \cup {JObject(plates[Len(plates)].items, [k \in DOMAIN plates[1].totals |-> 1]),
          JObject(<<ForeignItem>> \o Tail(plates[1].items), plates[1].totals),
          JObject(plates[1].items \o <<ForeignItem>>, plates[1].totals)}

\* gpt_choose_plate without its try/except: a failed completion propagates
gpt_choose_plate_uncaught(plates, clientOk, reply) ==
    IF plates = <<>> THEN [exc |-> "InfeasiblePlateError", value |-> NoReply]
    ELSE IF ~clientOk THEN [exc |-> "RuntimeError", value |-> NoReply]
    ELSE IF reply.type = "exception" THEN [exc |-> "openai", value |-> NoReply]
    ELSE [exc |-> "", value |-> reply]

\* clientOk: _openai_client() returns a client; reply: what the completion
\* gives.  Returns the exception raised, or the value returned.
gpt_choose_plate(plates, clientOk, reply) ==
    IF plates = <<>> THEN [exc |-> "InfeasiblePlateError", value |-> NoReply]
    ELSE LET p == SubSeq(plates, 1, Min(Len(plates), MAX_GPT_PLATES))
         IN  IF ~clientOk THEN [exc |-> "RuntimeError", value |-> NoReply]
             ELSE IF reply.type = "exception" THEN [exc |-> "", value |-> p[1]]
             ELSE [exc |-> "", value |-> reply]

\* ---- state -----------------------------------------------------------------
VARIABLES
    pc,            \* position of the request handler plan_plate
    clientCached,  \* lru_cache of _openai_client holds a client
    indexCached,   \* lru_cache of pc_index holds an index
    expired,       \* time.time() - start_time > 8 at the last reading of the clock
    targets,       \* the four macro targets of the request
    candidates,    \* the candidate list
    ri, ci, si,    \* positions of the three loops: size, combination, serving tuple
    scored,        \* the accumulated plates
    top_opts,      \* scored[:10] after the sort
    offered,       \* the plates listed in the ranker prompt (plates[:MAX_GPT_PLATES])
    reply,         \* what the ranker came back with
    rankerCalls,   \* number of chat completions requested for this request
    resp,          \* the response of the request
    startExpired,  \* history: the budget was already exceeded when the loops began
    pn_x, pn_out,  \* parse_num: its argument and what the call gave
    _MENU_CACHE, _MENU_CACHE_TIME,   \* the globals of get_menu
    clock,         \* time.time(), in seconds
    served,        \* version of the menu JSON the server has now
    gm_pc, gm_val, gm_t, gm_ret,     \* per thread in get_menu: position and locals
    req,           \* the JSON body of the request
    hits,          \* history: the vectors the index held when it was queried
    he_err, he_resp,                 \* per thread: the exception raised, handle_any's answer
    rt_pc, rt_task, rt_attempt, rt_last, rt_ret, rt_calls,   \* scrape_with_retry
    rt_hist,                         \* history: the outcome of each scrape of this call
    mg_cbord, mg_nutri, mg_out,      \* merge_consolidated: arguments and result
    pl_pc, pl_fut, pl_yielded, pl_results, pl_completed, pl_failed,  \* main(): the pool
    pl_workers                       \* max_workers of the pool

parseVars == <<pn_x, pn_out>>
menuVars == <<_MENU_CACHE, _MENU_CACHE_TIME, clock, served, gm_pc, gm_val, gm_t, gm_ret>>
errVars == <<he_err, he_resp>>
retryVars == <<rt_pc, rt_task, rt_attempt, rt_last, rt_ret, rt_calls, rt_hist>>
mergeVars == <<mg_cbord, mg_nutri, mg_out>>
poolVars == <<pl_pc, pl_fut, pl_yielded, pl_results, pl_completed, pl_failed, pl_workers>>
\* the variables of the scrapers, the merge and the error handler
restVars == <<errVars, retryVars, mergeVars, poolVars>>
planVars == <<pc, clientCached, indexCached, expired, targets, candidates, ri, ci, si,
              scored, top_opts, offered, reply, rankerCalls, resp, startExpired, req, hits>>
vars == <<planVars, parseVars, menuVars, restVars>>

NoTargets == [k \in {"calories", "protein", "carbs", "fat"} |-> 0]
\* no request body
NoRequest == [k \in {} |-> 0]
NoResp == [status |-> 0, body |-> NoReply]

\* a clock that may run backwards
Clock_rewinds(e) == {FALSE, TRUE}

\* the clock never runs backwards: once the budget is exceeded it stays so
Clock(e) == IF e THEN {TRUE} ELSE {FALSE, TRUE}

locals == <<targets, candidates, ri, ci, si, scored, top_opts, offered, reply, rankerCalls>>

\* ---- get_menu and parse_num: values and resting state ----------------------
MENU_TTL_SECONDS == 3600
NumThreads == 2
Threads == 1..NumThreads

\* a value of _MENU_CACHE: None, or the JSON object of a fetch. v is the version
\* of the menu the server sent; version 0 is the empty object {}
NoneMenu == [kind |-> "None", v |-> 0]
MenuJson(n) == [kind |-> "dict", v |-> n]
\* Python truth of a cache value: None and {} are false
Truthy(m) == m.kind = "dict" /\ m.v > 0

\* no result yet / a returned value / a raised exception
NoResult == [exc |-> "", value |-> <<>>]
Returned(v) == [exc |-> "", value |-> <<v>>]
Raised(e) == [exc |-> e, value |-> <<>>]

\* endpoint.py:111-112 at import; no thread is inside get_menu. The process
\* starts more than one TTL after the epoch.
MenuIdle ==
    /\ _MENU_CACHE = NoneMenu
    /\ _MENU_CACHE_TIME = 0
    /\ clock = MENU_TTL_SECONDS
    /\ served = 1
    /\ gm_pc = [t \in Threads |-> "idle"]
    /\ gm_val = [t \in Threads |-> NoneMenu]
    /\ gm_t = [t \in Threads |-> 0]
    /\ gm_ret = [t \in Threads |-> NoResult]

\* no call of parse_num is under way
ParseIdle ==
    /\ pn_x = Other
    /\ pn_out = NoResult

\* no request is in plan_plate; the lru_caches are empty
PlanIdle ==
    /\ pc = "idle"
    /\ clientCached = FALSE
    /\ indexCached = FALSE
    /\ expired = FALSE
    /\ targets = NoTargets
    /\ candidates = <<>>
    /\ ri = 0 /\ ci = 0 /\ si = 0
    /\ scored = <<>>
    /\ top_opts = <<>>
    /\ offered = <<>>
    /\ reply = NoReply
    /\ rankerCalls = 0
    /\ resp = NoResp
    /\ startExpired = FALSE
    /\ req = NoRequest
    /\ hits = {}

\* ---- scrapers, merge, error handler: values and resting state ---------------
MAX_RETRIES == 2

\* a MealData tuple (backend/constants.py:29), or None
MealData(h, m, a, c) ==
    [kind |-> "MealData", hall |-> h, meal |-> m, available |-> a, categories |-> c]
NoneValue == [kind |-> "None", hall |-> "", meal |-> "", available |-> FALSE, categories |-> 0]

\* a consolidated menu: is "dining_halls" a dict, and its value hall -> meals
MenuDoc(d, h) == [isdict |-> d, halls |-> h]
NoDoc == MenuDoc(FALSE, <<>>)

\* no request is in handle_any
ErrIdle ==
    /\ he_err = [t \in Threads |-> ""]
    /\ he_resp = [t \in Threads |-> NoResp]

\* scrape_with_retry is not running
RetryIdle ==
    /\ rt_pc = "idle"
    /\ rt_task = <<"", "">>
    /\ rt_attempt = 0
    /\ rt_last = NoneValue
    /\ rt_ret = NoResult
    /\ rt_calls = 0
    /\ rt_hist = <<>>

\* merge_consolidated is not running
MergeIdle ==
    /\ mg_cbord = NoDoc
    /\ mg_nutri = NoDoc
    /\ mg_out = NoResult

\* main() of the scraper has not started
PoolIdle ==
    /\ pl_pc = "idle"
    /\ pl_fut = <<>>
    /\ pl_yielded = {}
    /\ pl_results = <<>>
    /\ pl_completed = 0
    /\ pl_failed = 0
    /\ pl_workers = 0

RestIdle == ErrIdle /\ RetryIdle /\ MergeIdle /\ PoolIdle

Init == PlanIdle /\ ParseIdle /\ MenuIdle /\ RestIdle

\* an exception leaves plan_plate and Flask hands it to handle_any
Raise(err) ==
    /\ resp' = handle_any(err)
    /\ pc' = "done"

\* endpoint.py:239-251: start the clock, read the body, required fields and targets
ParseRequest ==
    /\ pc = "idle"
    /\ \E data \in Requests :
         LET hall == safe_json(data, "hall", <<>>)
             meal == safe_json(data, "meal", <<>>)
         IN  /\ req' = data
             /\ IF hall.exc # "" THEN Raise(hall.exc) /\ UNCHANGED targets
                ELSE IF meal.exc # "" THEN Raise(meal.exc) /\ UNCHANGED targets
                ELSE /\ targets' =
                          [calories |-> safe_json(data, "calorieTarget", <<0>>).value,
                           protein  |-> safe_json(data, "proteinTarget", <<0>>).value,
                           carbs    |-> safe_json(data, "carbTarget", <<0>>).value,
                           fat      |-> safe_json(data, "fatTarget", <<0>>).value]
                     /\ pc' = "embed"
                     /\ UNCHANGED resp
    /\ expired' = FALSE
    /\ UNCHANGED <<clientCached, indexCached, candidates, ri, ci, si, scored, top_opts,
                   offered, reply, rankerCalls>>
    /\ UNCHANGED <<startExpired, hits, parseVars, menuVars, restVars>>

\* endpoint.py:141-146 and 262-265: the memoised client, then the embedding call.
\* Without a cached client the constructor runs: it returns a client, which is
\* cached, or raises RuntimeError (no API key), which is not.
Embed ==
    /\ pc = "embed"
    /\ \E made \in (IF clientCached THEN {TRUE} ELSE {TRUE, FALSE}) :
         IF ~made THEN Raise("RuntimeError") /\ UNCHANGED <<clientCached, expired>>
         ELSE /\ clientCached' = TRUE
              /\ \E ok \in BOOLEAN :
                   IF ok THEN /\ pc' = "query"
                              /\ expired' \in Clock(expired)
                              /\ UNCHANGED resp
                   ELSE Raise("openai") /\ UNCHANGED expired
    /\ UNCHANGED <<indexCached, locals>>
    /\ UNCHANGED <<startExpired, req, hits, parseVars, menuVars, restVars>>

\* endpoint.py:132-139 and 267-288: the memoised index, the query, the candidates
Query ==
    /\ pc = "query"
    /\ \E made \in (IF indexCached THEN {TRUE} ELSE {TRUE, FALSE}) :
         IF ~made THEN Raise("RuntimeError") /\ UNCHANGED <<indexCached, expired, candidates, hits>>
         ELSE /\ indexCached' = TRUE
              /\ \E ok \in BOOLEAN :
                   IF ~ok
                   THEN Raise("pinecone") /\ UNCHANGED <<expired, candidates, hits>>
                   ELSE /\ \E S \in IndexStates :
                             /\ hits' = S
                             /\ candidates' = candidates_of(query(S, req["hall"], req["meal"]))
                        /\ pc' = "for_r"
                        /\ expired' \in Clock(expired)
                        /\ UNCHANGED resp
    /\ UNCHANGED <<clientCached, targets, ri, ci, si, scored, top_opts, offered, reply,
                   rankerCalls>>
    /\ startExpired' = (pc' = "for_r" /\ expired')
    /\ UNCHANGED <<req, parseVars, menuVars, restVars>>

\* endpoint.py:292: next plate size, or the loop is over
ForR ==
    /\ pc = "for_r"
    /\ IF ri < Len(PLATE_SIZES)
       THEN ri' = ri + 1 /\ ci' = 0 /\ pc' = "for_combo"
       ELSE pc' = "post" /\ UNCHANGED <<ri, ci>>
    /\ UNCHANGED <<clientCached, indexCached, expired, targets, candidates, si, scored,
                   top_opts, offered, reply, rankerCalls, resp>>
    /\ UNCHANGED <<startExpired, req, hits, parseVars, menuVars, restVars>>

\* endpoint.py:293: next combination of this size, or this size is done
ForCombo ==
    /\ pc = "for_combo"
    /\ IF ci < Len(combinations(Len(candidates), PLATE_SIZES[ri]))
       THEN ci' = ci + 1 /\ si' = 0 /\ pc' = "for_servs"
       ELSE pc' = "chk_r" /\ UNCHANGED <<ci, si>>
    /\ UNCHANGED <<clientCached, indexCached, expired, targets, candidates, ri, scored,
                   top_opts, offered, reply, rankerCalls, resp>>
    /\ UNCHANGED <<startExpired, req, hits, parseVars, menuVars, restVars>>

\* the plate of combination ci and serving tuple si
plate_at(cands, r, c, s) ==
    LET combo == combinations(Len(cands), r)[c]
        servs == product(r)[s]
    IN  [i \in 1..r |-> <<cands[combo[i]], servs[i]>>]

\* endpoint.py:297-299: the entry appended for a plate
scored_entry(plate, tgts) ==
    LET res == score_plate(plate, tgts)
    IN  [plate |-> plate, score |-> res[1], sums |-> res[2]]

\* the inner loop with the clock read after the append instead of before it
ForServs_checks_after ==
    /\ pc = "for_servs"
    /\ IF si < Len(product(PLATE_SIZES[ri]))
       THEN \E now \in Clock(expired) :
              /\ expired' = now
              /\ si' = si + 1
              /\ scored' = Append(scored,
                     scored_entry(plate_at(candidates, PLATE_SIZES[ri], ci, si + 1),
                                  targets))
              /\ pc' = IF now THEN "chk_combo" ELSE "for_servs"
       ELSE pc' = "chk_combo" /\ UNCHANGED <<si, scored, expired>>
    /\ UNCHANGED <<clientCached, indexCached, targets, candidates, ri, ci, top_opts,
                   offered, reply, rankerCalls, resp>>
    /\ UNCHANGED <<startExpired, req, hits, parseVars, menuVars, restVars>>

\* endpoint.py:294-299: next serving tuple; read the clock; break or score and append
ForServs ==
    /\ pc = "for_servs"
    /\ IF si < Len(product(PLATE_SIZES[ri]))
       THEN \E now \in Clock(expired) :
              /\ expired' = now
              /\ si' = si + 1
              /\ IF now
                 THEN pc' = "chk_combo" /\ UNCHANGED scored
                 ELSE /\ scored' = Append(scored,
                             scored_entry(plate_at(candidates, PLATE_SIZES[ri], ci, si + 1),
                                          targets))
                      /\ pc' = "for_servs"
       ELSE pc' = "chk_combo" /\ UNCHANGED <<si, scored, expired>>
    /\ UNCHANGED <<clientCached, indexCached, targets, candidates, ri, ci, top_opts,
                   offered, reply, rankerCalls, resp>>
    /\ UNCHANGED <<startExpired, req, hits, parseVars, menuVars, restVars>>

\* the check after the serving loop never breaks
ChkCombo_continue ==
    /\ pc = "chk_combo"
    /\ expired' \in Clock(expired)
    /\ pc' = "for_combo"
    /\ UNCHANGED <<clientCached, indexCached, targets, candidates, ri, ci, si, scored,
                   top_opts, offered, reply, rankerCalls, resp>>
    /\ UNCHANGED <<startExpired, req, hits, parseVars, menuVars, restVars>>

\* endpoint.py:300-301
ChkCombo ==
    /\ pc = "chk_combo"
    /\ \E now \in Clock(expired) :
         /\ expired' = now
         /\ pc' = IF now THEN "chk_r" ELSE "for_combo"
    /\ UNCHANGED <<clientCached, indexCached, targets, candidates, ri, ci, si, scored,
                   top_opts, offered, reply, rankerCalls, resp>>
    /\ UNCHANGED <<startExpired, req, hits, parseVars, menuVars, restVars>>

\* endpoint.py:302-303
ChkR ==
    /\ pc = "chk_r"
    /\ \E now \in Clock(expired) :
         /\ expired' = now
         /\ pc' = IF now THEN "post" ELSE "for_r"
    /\ UNCHANGED <<clientCached, indexCached, targets, candidates, ri, ci, si, scored,
                   top_opts, offered, reply, rankerCalls, resp>>
    /\ UNCHANGED <<startExpired, req, hits, parseVars, menuVars, restVars>>

\* scored[-10:]
top_slice_last(s) == SubSeq(s, Len(s) - Min(Len(s), TOP_OPTS) + 1, Len(s))

\* scored[:10]
top_slice(s) == SubSeq(s, 1, Min(Len(s), TOP_OPTS))

\* endpoint.py:304-308: nothing scored gives 504; else sort and keep the top.
\* scored is not read after line 308 and is dropped here.
SortAndSlice ==
    /\ pc = "post"
    /\ IF scored = <<>>
       THEN /\ resp' = [status |-> 504, body |-> ErrorBody]
            /\ pc' = "done"
            /\ UNCHANGED <<scored, top_opts>>
       ELSE /\ top_opts' = top_slice(sort_by_score(scored))
            /\ scored' = <<>>
            /\ pc' = "rank"
            /\ UNCHANGED resp
    /\ UNCHANGED <<clientCached, indexCached, expired, targets, candidates, ri, ci, si,
                   offered, reply, rankerCalls>>
    /\ UNCHANGED <<startExpired, req, hits, parseVars, menuVars, restVars>>

\* opts_payload (endpoint.py:311-316)
opts_payload(opts) == [i \in 1..Len(opts) |-> payload_of(opts[i])]

\* endpoint.py:317-319 with gpt_choose_plate (150-186): the ranker's choice, or
\* the first plate when the completion fails, is the response
ChoosePlate ==
    /\ pc = "rank"
    /\ LET plates == opts_payload(top_opts)
           sent   == SubSeq(plates, 1, Min(Len(plates), MAX_GPT_PLATES))
       IN  \E made \in (IF clientCached THEN {TRUE} ELSE {TRUE, FALSE}) :
           \E answer \in RankerReplies(sent) :
             LET res == gpt_choose_plate(plates, made, answer)
             IN  /\ offered' = sent
                 /\ IF made
                    THEN reply' = answer /\ rankerCalls' = rankerCalls + 1
                    ELSE UNCHANGED <<reply, rankerCalls>>
                 /\ IF res.exc # "" THEN Raise(res.exc)
                    ELSE resp' = [status |-> 200, body |-> res.value] /\ pc' = "done"
                 /\ clientCached' = (clientCached \/ made)
    /\ UNCHANGED <<indexCached, expired, targets, candidates, ri, ci, si, scored, top_opts>>
    /\ UNCHANGED <<startExpired, req, hits, parseVars, menuVars, restVars>>

\* a handler whose candidate list and plates outlive the request
Respond_keeps_locals ==
    /\ pc = "done"
    /\ pc' = "idle"
    /\ expired' = FALSE
    /\ targets' = NoTargets
    /\ ri' = 0 /\ ci' = 0 /\ si' = 0
    /\ scored' = <<>>
    /\ reply' = NoReply
    /\ rankerCalls' = 0
    /\ resp' = NoResp
    /\ UNCHANGED <<clientCached, indexCached, candidates, top_opts, offered>>
    /\ startExpired' = FALSE
    /\ req' = NoRequest
    /\ hits' = {}
    /\ UNCHANGED <<parseVars, menuVars, restVars>>

\* the response is sent; the handler's locals are gone
Respond ==
    /\ pc = "done"
    /\ pc' = "idle"
    /\ expired' = FALSE
    /\ targets' = NoTargets
    /\ candidates' = <<>>
    /\ ri' = 0 /\ ci' = 0 /\ si' = 0
    /\ scored' = <<>>
    /\ top_opts' = <<>>
    /\ offered' = <<>>
    /\ reply' = NoReply
    /\ rankerCalls' = 0
    /\ resp' = NoResp
    /\ UNCHANGED <<clientCached, indexCached>>
    /\ startExpired' = FALSE
    /\ req' = NoRequest
    /\ hits' = {}
    /\ UNCHANGED <<parseVars, menuVars, restVars>>

Next ==
    \/ ParseRequest
    \/ Embed
    \/ Query
    \/ ForR
    \/ ForCombo
    \/ ForServs
    \/ ChkCombo
    \/ ChkR
    \/ SortAndSlice
    \/ ChoosePlate
    \/ Respond

Spec == Init /\ [][Next]_vars

\* ---- parse_num on its own -----------------------------------------------------
MaxStrLen == 3
MaxNum == 5
ParseChars == {"0", "1", "2", "g", "-", " "}

\* the strings over ParseChars of length up to n
StringsUpTo(n) == UNION {[1..k -> ParseChars] : k \in 0..n}

\* the arguments parse_num is applied to: integers of either sign, strings
\* with and without digits, a value of another type
ParseInputs ==
    {Num(n) : n \in (-MaxNum)..MaxNum} \cup {Str(s) : s \in StringsUpTo(MaxStrLen)}
        \cup {Other}

InitParse ==
    /\ PlanIdle /\ MenuIdle /\ RestIdle
    /\ pn_x \in ParseInputs
    /\ pn_out = NoResult

\* endpoint.py:85-95: one call
CallParseNum ==
    /\ pn_out = NoResult
    /\ pn_out' = Returned(parse_num(pn_x))
    /\ UNCHANGED <<pn_x, planVars, menuVars, restVars>>

\* endpoint.py:283-286: the caller goes on to the next metadata value
NextValue ==
    /\ pn_out # NoResult
    /\ pn_x' \in ParseInputs
    /\ pn_out' = NoResult
    /\ UNCHANGED <<planVars, menuVars, restVars>>

NextParse ==
    \/ CallParseNum
    \/ NextValue

SpecParse == InitParse /\ [][NextParse]_vars

\* ---- get_menu under concurrent requests ------------------------------------
TickSeconds == 1800
MaxTicks == 3
MaxVersion == 2

\* a thread is in requests.get / between the fetch and the end of the stores
InFlight(t) == gm_pc[t] = "fetch"
Refreshing(t) == gm_pc[t] \in {"fetch", "store_cache", "store_time"}

\* endpoint.py:116-117: a fresh, non-empty cache is returned; else fetch
GmCheck(t) ==
    /\ gm_pc[t] = "idle"
    /\ IF Truthy(_MENU_CACHE) /\ clock - _MENU_CACHE_TIME < MENU_TTL_SECONDS
       THEN /\ gm_ret' = [gm_ret EXCEPT ![t] = Returned(_MENU_CACHE)]
            /\ gm_pc' = [gm_pc EXCEPT ![t] = "ret"]
       ELSE /\ gm_pc' = [gm_pc EXCEPT ![t] = "fetch"]
            /\ UNCHANGED gm_ret
    /\ UNCHANGED <<_MENU_CACHE, _MENU_CACHE_TIME, clock, served, gm_val, gm_t>>
    /\ UNCHANGED <<planVars, parseVars, restVars>>

\* endpoint.py:120-122: requests.get and raise_for_status fail with a
\* RequestException, or r.json() and time.time() are evaluated: the object the
\* server has now, or an empty object
GmFetch(t) ==
    /\ gm_pc[t] = "fetch"
    /\ \E ok \in BOOLEAN :
         IF ok
         THEN \E v \in {0, served} :
                /\ gm_val' = [gm_val EXCEPT ![t] = MenuJson(v)]
                /\ gm_t' = [gm_t EXCEPT ![t] = clock]
                /\ gm_pc' = [gm_pc EXCEPT ![t] = "store_cache"]
         ELSE /\ gm_pc' = [gm_pc EXCEPT ![t] = "except"]
              /\ UNCHANGED <<gm_val, gm_t>>
    /\ UNCHANGED <<_MENU_CACHE, _MENU_CACHE_TIME, clock, served, gm_ret>>
    /\ UNCHANGED <<planVars, parseVars, restVars>>

\* endpoint.py:122: the first store of the tuple assignment
GmStoreCache(t) ==
    /\ gm_pc[t] = "store_cache"
    /\ _MENU_CACHE' = gm_val[t]
    /\ gm_pc' = [gm_pc EXCEPT ![t] = "store_time"]
    /\ UNCHANGED <<_MENU_CACHE_TIME, clock, served, gm_val, gm_t, gm_ret>>
    /\ UNCHANGED <<planVars, parseVars, restVars>>

\* endpoint.py:122: the second store of the tuple assignment
GmStoreTime(t) ==
    /\ gm_pc[t] = "store_time"
    /\ _MENU_CACHE_TIME' = gm_t[t]
    /\ gm_pc' = [gm_pc EXCEPT ![t] = "return_new"]
    /\ UNCHANGED <<_MENU_CACHE, clock, served, gm_val, gm_t, gm_ret>>
    /\ UNCHANGED <<planVars, parseVars, restVars>>

\* endpoint.py:123: return _MENU_CACHE, read from the global
GmReturnNew(t) ==
    /\ gm_pc[t] = "return_new"
    /\ gm_ret' = [gm_ret EXCEPT ![t] = Returned(_MENU_CACHE)]
    /\ gm_pc' = [gm_pc EXCEPT ![t] = "ret"]
    /\ UNCHANGED <<_MENU_CACHE, _MENU_CACHE_TIME, clock, served, gm_val, gm_t>>
    /\ UNCHANGED <<planVars, parseVars, restVars>>

\* endpoint.py:124-129: the stale copy if the cache is non-empty, else
\* MenuFetchError
GmExcept(t) ==
    /\ gm_pc[t] = "except"
    /\ gm_ret' = [gm_ret EXCEPT ![t] =
                     IF Truthy(_MENU_CACHE) THEN Returned(_MENU_CACHE)
                     ELSE Raised("MenuFetchError")]
    /\ gm_pc' = [gm_pc EXCEPT ![t] = "ret"]
    /\ UNCHANGED <<_MENU_CACHE, _MENU_CACHE_TIME, clock, served, gm_val, gm_t>>
    /\ UNCHANGED <<planVars, parseVars, restVars>>

\* the caller has the result; the locals of the call are gone
GmDone(t) ==
    /\ gm_pc[t] = "ret"
    /\ gm_pc' = [gm_pc EXCEPT ![t] = "idle"]
    /\ gm_val' = [gm_val EXCEPT ![t] = NoneMenu]
    /\ gm_t' = [gm_t EXCEPT ![t] = 0]
    /\ gm_ret' = [gm_ret EXCEPT ![t] = NoResult]
    /\ UNCHANGED <<_MENU_CACHE, _MENU_CACHE_TIME, clock, served>>
    /\ UNCHANGED <<planVars, parseVars, restVars>>

\* time passes
Tick ==
    /\ clock + TickSeconds <= MENU_TTL_SECONDS + MaxTicks * TickSeconds
    /\ clock' = clock + TickSeconds
    /\ UNCHANGED <<_MENU_CACHE, _MENU_CACHE_TIME, served, gm_pc, gm_val, gm_t, gm_ret>>
    /\ UNCHANGED <<planVars, parseVars, restVars>>

\* the scraper publishes a new consolidated_menu.json
Publish ==
    /\ served < MaxVersion
    /\ served' = served + 1
    /\ UNCHANGED <<_MENU_CACHE, _MENU_CACHE_TIME, clock, gm_pc, gm_val, gm_t, gm_ret>>
    /\ UNCHANGED <<planVars, parseVars, restVars>>

NextMenu ==
    \/ \E t \in Threads : GmCheck(t)
    \/ \E t \in Threads : GmFetch(t)
    \/ \E t \in Threads : GmStoreCache(t)
    \/ \E t \in Threads : GmStoreTime(t)
    \/ \E t \in Threads : GmReturnNew(t)
    \/ \E t \in Threads : GmExcept(t)
    \/ \E t \in Threads : GmDone(t)
    \/ Tick
    \/ Publish

SpecMenu == Init /\ [][NextMenu]_vars

\* ---- handle_any under concurrent requests ------------------------------------
\* classes of the exceptions a view can let escape
Exceptions ==
    {"BadRequest", "InfeasiblePlateError", "MenuFetchError", "RequestException",
     "URLError", "openai", "pinecone", "RuntimeError", "KeyError", "TypeError",
     "NotFound"}

\* an exception escapes the view that thread t is running
RaiseIn(t, e) ==
    /\ he_err[t] = ""
    /\ he_err' = [he_err EXCEPT ![t] = e]
    /\ UNCHANGED he_resp
    /\ UNCHANGED <<planVars, parseVars, menuVars, retryVars, mergeVars, poolVars>>

\* Flask calls the handler registered for Exception
HandleAny(t) ==
    /\ he_err[t] # ""
    /\ he_resp[t] = NoResp
    /\ he_resp' = [he_resp EXCEPT ![t] = handle_any(he_err[t])]
    /\ UNCHANGED he_err
    /\ UNCHANGED <<planVars, parseVars, menuVars, retryVars, mergeVars, poolVars>>

\* the response is sent and the thread takes its next request
SendError(t) ==
    /\ he_resp[t] # NoResp
    /\ he_err' = [he_err EXCEPT ![t] = ""]
    /\ he_resp' = [he_resp EXCEPT ![t] = NoResp]
    /\ UNCHANGED <<planVars, parseVars, menuVars, retryVars, mergeVars, poolVars>>

NextErr ==
    \/ \E t \in Threads, e \in Exceptions : RaiseIn(t, e)
    \/ \E t \in Threads : HandleAny(t)
    \/ \E t \in Threads : SendError(t)

SpecErr == Init /\ [][NextErr]_vars

\* ---- plan_plate with a scheduler that always runs the handler -------------
\* every step of the handler that needs only the CPU
HandlerStep ==
    \/ ParseRequest
    \/ Embed
    \/ Query
    \/ ForR
    \/ ForCombo
    \/ ForServs
    \/ ChkCombo
    \/ ChkR
    \/ SortAndSlice
    \/ Respond

\* The thread that runs plan_plate is always scheduled again, so a step that
\* needs only the CPU is eventually taken.  ChoosePlate completes when
\* client.chat.completions.create returns or raises (endpoint.py:174-186);
\* the call is made without a timeout and nothing cancels it, so the code
\* gives no ground for a fairness condition on it.
SpecLive == Init /\ [][Next]_vars /\ WF_vars(HandlerStep)

\* ---- scrape_with_retry / scrape_meal_with_retries -------------------------------
\* the halls (backend/constants.py:15-20) and meals a task can name
HALLS ==
    <<"Holy Cross College Dining Hall", "North Dining Hall",
      "Saint Mary's Dining Hall", "South Dining Hall">>
MaxHalls == 2
MaxCategories == 2
Meals == {"Breakfast", "Lunch", "Dinner"}
Tasks == {HALLS[i] : i \in 1..Min(MaxHalls, Len(HALLS))} \X Meals

\* what one scrape of (hall, meal) can do: return a MealData for that hall and
\* meal, available with some categories or unavailable with none, or raise
ScrapeOutcomes(hall, meal) ==
    {[exc |-> FALSE, result |-> MealData(hall, meal, TRUE, n)] : n \in 1..MaxCategories}
    \cup {[exc |-> FALSE, result |-> MealData(hall, meal, FALSE, 0)],
          [exc |-> TRUE, result |-> NoneValue]}

\* main.py:23-28: the call and last_result = None
RtCall(hall, meal) ==
    /\ rt_pc = "idle"
    /\ rt_pc' = "for"
    /\ rt_task' = <<hall, meal>>
    /\ rt_attempt' = 0
    /\ rt_last' = NoneValue
    /\ rt_ret' = NoResult
    /\ rt_calls' = 0
    /\ rt_hist' = <<>>
    /\ UNCHANGED <<planVars, parseVars, menuVars, errVars, mergeVars, poolVars>>

\* line 29: for attempt in range(1, MAX_RETRIES + 1); line 42 when exhausted
RtFor ==
    /\ rt_pc = "for"
    /\ IF rt_attempt < MAX_RETRIES
       THEN /\ rt_attempt' = rt_attempt + 1
            /\ rt_pc' = "try"
            /\ UNCHANGED rt_ret
       ELSE /\ rt_ret' = Returned(rt_last)
            /\ rt_pc' = "ret"
            /\ UNCHANGED rt_attempt
    /\ UNCHANGED <<rt_task, rt_last, rt_calls, rt_hist>>
    /\ UNCHANGED <<planVars, parseVars, menuVars, errVars, mergeVars, poolVars>>

\* lines 30-36: the body of the try
RtTry ==
    /\ rt_pc = "try"
    /\ \E o \in ScrapeOutcomes(rt_task[1], rt_task[2]) :
         /\ rt_calls' = rt_calls + 1
         /\ rt_hist' = Append(rt_hist, o)
         /\ IF o.exc
            THEN rt_pc' = "except" /\ UNCHANGED <<rt_last, rt_ret>>
            ELSE /\ rt_last' = o.result
                 /\ IF o.result.available \/ rt_attempt = MAX_RETRIES
                    THEN rt_ret' = Returned(o.result) /\ rt_pc' = "ret"
                    ELSE rt_pc' = "sleep" /\ UNCHANGED rt_ret
    /\ UNCHANGED <<rt_task, rt_attempt>>
    /\ UNCHANGED <<planVars, parseVars, menuVars, errVars, mergeVars, poolVars>>

\* the same handler with the assignment of line 39 left out
RtExcept_keeps_last ==
    /\ rt_pc = "except"
    /\ rt_pc' = "sleep"
    /\ UNCHANGED <<rt_task, rt_attempt, rt_last, rt_ret, rt_calls, rt_hist>>
    /\ UNCHANGED <<planVars, parseVars, menuVars, errVars, mergeVars, poolVars>>

\* lines 37-39: except Exception
RtExcept ==
    /\ rt_pc = "except"
    /\ rt_last' = MealData(rt_task[1], rt_task[2], FALSE, 0)
    /\ rt_pc' = "sleep"
    /\ UNCHANGED <<rt_task, rt_attempt, rt_ret, rt_calls, rt_hist>>
    /\ UNCHANGED <<planVars, parseVars, menuVars, errVars, mergeVars, poolVars>>

\* line 41: time.sleep(...)
RtSleep ==
    /\ rt_pc = "sleep"
    /\ rt_pc' = "for"
    /\ UNCHANGED <<rt_task, rt_attempt, rt_last, rt_ret, rt_calls, rt_hist>>
    /\ UNCHANGED <<planVars, parseVars, menuVars, errVars, mergeVars, poolVars>>

\* the caller takes the returned value
RtDone ==
    /\ rt_pc = "ret"
    /\ rt_pc' = "idle"
    /\ rt_task' = <<"", "">>
    /\ rt_attempt' = 0
    /\ rt_last' = NoneValue
    /\ rt_ret' = NoResult
    /\ rt_calls' = 0
    /\ rt_hist' = <<>>
    /\ UNCHANGED <<planVars, parseVars, menuVars, errVars, mergeVars, poolVars>>

NextRetry ==
    \/ \E task \in Tasks : RtCall(task[1], task[2])
    \/ RtFor
    \/ RtTry
    \/ RtExcept
    \/ RtSleep
    \/ RtDone

SpecRetry == Init /\ [][NextRetry]_vars

\* ---- merge_consolidated (merge_menus.py) ------------------------------------------
PREFER_NUTRISLICE_HALLS == {"North Dining Hall", "South Dining Hall"}

\* one hall of PREFER_NUTRISLICE_HALLS and one outside it
MergeHalls == {"North Dining Hall", "Holy Cross College Dining Hall"}
MaxMeals == 2
MergeMeals == {<<"Breakfast", "Lunch", "Dinner", "Brunch">>[i] : i \in 1..MaxMeals}

EmptyDict == [k \in {} |-> 0]
\* the partial functions from D to R: the dicts with keys in D and values in R
Dicts(D, R) == UNION {[K -> R] : K \in SUBSET D}

\* a meal entry as a scraper of source src writes it
MealEntries(src) == {[src |-> src, available |-> a] : a \in BOOLEAN}
\* the value under a hall: a dict of meals, or something that is not a dict
HallValues(src) ==
    {[isdict |-> TRUE, meals |-> ms] : ms \in Dicts(MergeMeals, MealEntries(src))}
    \cup {[isdict |-> FALSE, meals |-> EmptyDict]}
\* the consolidated files a scraper of source src can leave
Docs(src) ==
    {MenuDoc(TRUE, hs) : hs \in Dicts(MergeHalls, HallValues(src))}
    \cup {MenuDoc(FALSE, EmptyDict)}

\* d.update(e) on a copy of d, with e's entries lost where d has the key
dict_update_keep(d, e) ==
    [k \in DOMAIN d \cup DOMAIN e |-> IF k \in DOMAIN d THEN d[k] ELSE e[k]]

\* lines 39-40: merged_meals = dict(d); merged_meals.update(e)
dict_update(d, e) ==
    [k \in DOMAIN d \cup DOMAIN e |-> IF k \in DOMAIN e THEN e[k] ELSE d[k]]

\* lines 19-20: the dining_halls of a file, {} when it is not a dict
dining_halls(doc) == IF doc.isdict THEN doc.halls ELSE EmptyDict

\* lines 30-36: the meals of a hall, {} when absent or not a dict
meals_of(dh, hall) ==
    IF hall \in DOMAIN dh /\ dh[hall].isdict THEN dh[hall].meals ELSE EmptyDict

\* lines 18-49; "last_updated" and "date" are left out
merge_consolidated(cbord, nutri) ==
    LET cb_dh == dining_halls(cbord)
        nu_dh == dining_halls(nutri)
        all_halls == DOMAIN cb_dh \cup DOMAIN nu_dh
        merged_meals(hall) ==
            LET cb_meals == meals_of(cb_dh, hall)
                nu_meals == meals_of(nu_dh, hall)
                first == dict_update(cb_meals, nu_meals)
            IN  IF hall \in PREFER_NUTRISLICE_HALLS
                THEN dict_update(cb_meals, nu_meals)
                ELSE first
    IN  MenuDoc(TRUE, [hall \in all_halls |->
                         [isdict |-> TRUE, meals |-> merged_meals(hall)]])

InitMerge ==
    /\ PlanIdle /\ ParseIdle /\ MenuIdle /\ ErrIdle /\ RetryIdle /\ PoolIdle
    /\ mg_cbord \in Docs("cbord")
    /\ mg_nutri \in Docs("nutrislice")
    /\ mg_out = NoResult

\* main() of merge_menus.py: merged = merge_consolidated(cbord, nutri)
CallMerge ==
    /\ mg_out = NoResult
    /\ mg_out' = Returned(merge_consolidated(mg_cbord, mg_nutri))
    /\ UNCHANGED <<mg_cbord, mg_nutri>>
    /\ UNCHANGED <<planVars, parseVars, menuVars, errVars, retryVars, poolVars>>

NextMerge == CallMerge

SpecMerge == InitMerge /\ [][NextMerge]_vars

\* ---- main(): the process pool and the collecting loop ------------------------------
NumTasks == 3
\* values of os.cpu_count(); 0 stands for None, an unknown count
CpuCounts == {0, 1, 2, 8}
AllMeals == <<"Breakfast", "Lunch", "Dinner">>
\* the discovered tasks: distinct (hall, meal) pairs
discovered_tasks(n) ==
    [i \in 1..n |-> <<HALLS[((i - 1) % Len(HALLS)) + 1],
                      AllMeals[(((i - 1) \div Len(HALLS)) % Len(AllMeals)) + 1]>>]

Min3(a, b, c) == Min(a, Min(b, c))
\* line 80: min(4, os.cpu_count() or 1, len(discovered_tasks))
max_workers(cpus, n) == Min3(4, IF cpus = 0 THEN 1 ELSE cpus, n)

\* a future: its task, its state, and its result once it has one
Future(task, state, result) == [task |-> task, state |-> state, result |-> result]
DoneStates == {"ok", "exc"}
Running == {i \in DOMAIN pl_fut : pl_fut[i].state = "running"}

\* lines 82-92: the pool is created and every task is submitted
PlSubmit(n, cpus) ==
    /\ pl_pc = "idle"
    /\ pl_pc' = "collect"
    /\ pl_workers' = max_workers(cpus, n)
    /\ pl_fut' = [i \in 1..n |-> Future(discovered_tasks(n)[i], "pending", NoneValue)]
    /\ pl_yielded' = {}
    /\ pl_results' = <<>>
    /\ pl_completed' = 0
    /\ pl_failed' = 0
    /\ UNCHANGED <<planVars, parseVars, menuVars, errVars, retryVars, mergeVars>>

\* a free worker process takes the oldest pending task
PlStart(i) ==
    /\ pl_pc = "collect"
    /\ pl_fut[i].state = "pending"
    /\ \A j \in 1..(i - 1) : pl_fut[j].state # "pending"
    /\ Cardinality(Running) < pl_workers
    /\ pl_fut' = [pl_fut EXCEPT ![i].state = "running"]
    /\ UNCHANGED <<pl_pc, pl_yielded, pl_results, pl_completed, pl_failed, pl_workers>>
    /\ UNCHANGED <<planVars, parseVars, menuVars, errVars, retryVars, mergeVars>>

\* scrape_with_retry returns in the worker, or the call ends with an exception
PlFinish(i) ==
    /\ pl_pc = "collect"
    /\ pl_fut[i].state = "running"
    /\ \E ok \in BOOLEAN, a \in BOOLEAN :
         pl_fut' = [pl_fut EXCEPT ![i] =
                       IF ok
                       THEN Future(@.task, "ok",
                                   MealData(@.task[1], @.task[2], a, IF a THEN 1 ELSE 0))
                       ELSE Future(@.task, "exc", NoneValue)]
    /\ UNCHANGED <<pl_pc, pl_yielded, pl_results, pl_completed, pl_failed, pl_workers>>
    /\ UNCHANGED <<planVars, parseVars, menuVars, errVars, retryVars, mergeVars>>

\* a worker process dies: the pool is broken and every future that is not done
\* gets BrokenProcessPool
PlBreak ==
    /\ pl_pc = "collect"
    /\ Running # {}
    /\ pl_fut' = [i \in DOMAIN pl_fut |->
                    IF pl_fut[i].state \in DoneStates THEN pl_fut[i]
                    ELSE Future(pl_fut[i].task, "exc", NoneValue)]
    /\ UNCHANGED <<pl_pc, pl_yielded, pl_results, pl_completed, pl_failed, pl_workers>>
    /\ UNCHANGED <<planVars, parseVars, menuVars, errVars, retryVars, mergeVars>>

\* the loop body with the except branch counting nothing
PlCollect_drops_failed(i) ==
    /\ pl_pc = "collect"
    /\ i \notin pl_yielded
    /\ pl_fut[i].state \in DoneStates
    /\ pl_yielded' = pl_yielded \cup {i}
    /\ IF pl_fut[i].state = "ok"
       THEN /\ pl_results' = Append(pl_results, pl_fut[i].result)
            /\ pl_completed' = pl_completed + 1
       ELSE UNCHANGED <<pl_results, pl_completed>>
    /\ UNCHANGED <<pl_pc, pl_fut, pl_failed, pl_workers>>
    /\ UNCHANGED <<planVars, parseVars, menuVars, errVars, retryVars, mergeVars>>

\* lines 93-101: as_completed yields a future that is done and was not yet
\* yielded; future.result() returns the value or raises
PlCollect(i) ==
    /\ pl_pc = "collect"
    /\ i \notin pl_yielded
    /\ pl_fut[i].state \in DoneStates
    /\ pl_yielded' = pl_yielded \cup {i}
    /\ IF pl_fut[i].state = "ok"
       THEN /\ pl_results' = Append(pl_results, pl_fut[i].result)
            /\ pl_completed' = pl_completed + 1
            /\ UNCHANGED pl_failed
       ELSE /\ pl_failed' = pl_failed + 1
            /\ UNCHANGED <<pl_results, pl_completed>>
    /\ UNCHANGED <<pl_pc, pl_fut, pl_workers>>
    /\ UNCHANGED <<planVars, parseVars, menuVars, errVars, retryVars, mergeVars>>

\* as_completed is exhausted when every future has been yielded
PlEnd ==
    /\ pl_pc = "collect"
    /\ pl_yielded = DOMAIN pl_fut
    /\ pl_pc' = "end"
    /\ UNCHANGED <<pl_fut, pl_yielded, pl_results, pl_completed, pl_failed, pl_workers>>
    /\ UNCHANGED <<planVars, parseVars, menuVars, errVars, retryVars, mergeVars>>

\* main() returns and the process exits
PlExit ==
    /\ pl_pc = "end"
    /\ pl_pc' = "idle"
    /\ pl_fut' = <<>>
    /\ pl_yielded' = {}
    /\ pl_results' = <<>>
    /\ pl_completed' = 0
    /\ pl_failed' = 0
    /\ pl_workers' = 0
    /\ UNCHANGED <<planVars, parseVars, menuVars, errVars, retryVars, mergeVars>>

NextPool ==
    \/ \E n \in 1..NumTasks, cpus \in CpuCounts : PlSubmit(n, cpus)
    \/ \E i \in DOMAIN pl_fut : PlStart(i)
    \/ \E i \in DOMAIN pl_fut : PlFinish(i)
    \/ PlBreak
    \/ \E i \in DOMAIN pl_fut : PlCollect(i)
    \/ PlEnd
    \/ PlExit

SpecPool == Init /\ [][NextPool]_vars

\* ---- properties -------------------------------------------------------------
MacroSet == {"calories", "protein", "carbs", "fat"}

\* total of macro k over a plate (sequence of <<item, servings>>), in halves
PlateTotal(plate, k) ==
    LET f[i \in 0..Len(plate)] ==
            IF i = 0 THEN 0 ELSE f[i - 1] + plate[i][1][k] * plate[i][2]
    IN  f[Len(plate)]

\* |total - target| <= 0.10 * target for every non-zero target
WithinTolerance(plate, tgts) ==
    \A k \in MacroSet :
        tgts[k] # 0 =>
            100 * Abs(PlateTotal(plate, k) - Half(tgts[k])) <= TOLERANCE_PCT * Half(tgts[k])

\* the plates handed to the ranker are those of top_opts, from the sort on
HandedToRanker == pc \in {"rank", "done"} /\ top_opts # <<>>

\* number of plates of the whole combination space over n candidates
TotalPlates(n) ==
    Len(combinations(n, 2)) * Len(product(2))
    + Len(combinations(n, 3)) * Len(product(3))
    + Len(combinations(n, 4)) * Len(product(4))

\* the enumeration of this request was entered and is over
EnumerationOver == pc = "done" /\ ri > 0

\* C1: every plate offered to the ranker is within 10 % of every non-zero
\* target.  (The claim as stated; the code applies no tolerance test.)
C1_OfferedWithinTolerance ==
    HandedToRanker =>
        \A i \in 1..Len(top_opts) : WithinTolerance(top_opts[i].plate, targets)

\* C2: every offered plate has 2 to 4 items, pairwise distinct dish names and
\* servings among the serving options.  (The claim as stated; candidates that
\* share a name are combined.)
C2_OfferedWellFormed ==
    HandedToRanker =>
        \A i \in 1..Len(top_opts) :
            LET plate == top_opts[i].plate
            IN  /\ Len(plate) \in 2..4
                /\ \A a, b \in 1..Len(plate) : a # b => plate[a][1].name # plate[b][1].name
                /\ \A a \in 1..Len(plate) :
                       \E o \in 1..Len(SERVING_OPTIONS) : plate[a][2] = SERVING_OPTIONS[o]

\* an item of a reply names a (name, servingSize) pair of some offered plate
ItemWasOffered(it) ==
    \E i \in 1..Len(offered) : \E j \in 1..Len(offered[i].items) :
        /\ offered[i].items[j].name = it.name
        /\ offered[i].items[j].servingSize = it.servingSize

Answered200 == pc = "done" /\ resp.status = 200

\* C3: a reply with an item that was not offered is rejected in favour of the
\* lowest-score plate, and the returned items are always those of one offered
\* plate.  (The claim as stated; the code returns the reply unverified.)
C3_ForeignItemRejected ==
    (Answered200 /\ reply.type = "object" /\ reply.keys = {"items", "totals"}) =>
        /\ \E i \in 1..Len(offered) : resp.body.items = offered[i].items
        /\ (\E j \in 1..Len(reply.items) : ~ItemWasOffered(reply.items[j]))
               => resp.body = offered[1]

\* C4: the totals of a success response are the sums of candidate macro times
\* servings over the returned items.  (The claim as stated; the code passes
\* the ranker's totals on.)
C4_TotalsRecomputed ==
    (Answered200 /\ \E i \in 1..Len(offered) : resp.body.items = offered[i].items) =>
        /\ "totals" \in resp.body.keys
        /\ \E f \in [1..Len(resp.body.items) -> 1..Len(candidates)] :
             /\ \A j \in 1..Len(resp.body.items) :
                    /\ candidates[f[j]].name = resp.body.items[j].name
                    /\ candidates[f[j]].servingSize = resp.body.items[j].servingSize
             /\ \A k \in MacroSet :
                    resp.body.totals[k] =
                        PlateTotal([j \in 1..Len(resp.body.items) |->
                                       <<candidates[f[j]], resp.body.items[j].servings>>], k)

\* C5: with no plate held at the end of the enumeration, the answer is 422 when
\* the whole space was explored (the budget was never found exceeded) and 504
\* when the budget cut short a space that holds plates.  (The claim as stated;
\* the code answers 504 in both cases.)
C5_InfeasibleVersusTimeout ==
    (EnumerationOver /\ top_opts = <<>>) =>
        IF ~expired THEN resp.status = 422
        ELSE TotalPlates(Len(candidates)) > 0 => resp.status = 504

\* C6: with fewer than 2 candidates the answer is 422, nothing is scored and
\* the ranker is not called.  (The claim as stated; the code answers 504.)
C6_UndersizedIsInfeasible ==
    (EnumerationOver /\ Len(candidates) < 2) =>
        /\ resp.status = 422
        /\ top_opts = <<>> /\ scored = <<>>
        /\ rankerCalls = 0

\* C7: once plates are offered, the request is answered 200 whatever the ranker
\* does, and with the first offered plate when the completion fails.
C7_RankerFailureRecovered ==
    (pc = "done" /\ offered # <<>>) =>
        /\ resp.status = 200
        /\ reply.type = "exception" => resp.body = offered[1]

C7_Witness ==
    /\ pc = "done" /\ Len(offered) > 1 /\ rankerCalls = 1
    /\ reply.type = "exception"
    /\ resp = [status |-> 200, body |-> offered[1]]

\* the reply has the shape {items, totals} of a plate of the prompt
ExpectedShape(v) ==
    /\ v.type = "object"
    /\ v.keys = {"items", "totals"}
    /\ \E i \in 1..Len(offered) : v.items = offered[i].items

\* C8: a reply that is JSON but not a plate of the expected shape is not
\* applied: the response is the lowest-score offered plate.  (The claim as
\* stated; the code returns the reply.)
C8_WrongShapeNotApplied ==
    (Answered200 /\ reply.type # "exception" /\ ~ExpectedShape(reply)) =>
        resp.body = offered[1]

\* C9: the sort-and-slice step hands the ranker min(10, n) of the n accumulated
\* plates, in ascending score order, and no plate left out scores strictly
\* below an offered one; so the first offered plate has the minimum score.
C9_LowestScoreSelection ==
    [][(pc = "post" /\ pc' = "rank") =>
        LET n == Len(top_opts')
        IN  /\ n = Min(Len(scored), TOP_OPTS)
            /\ \A j \in 1..(n - 1) : top_opts'[j].score <= top_opts'[j + 1].score
            /\ \A j \in 1..n : \E i \in 1..Len(scored) : scored[i] = top_opts'[j]
            /\ \A i \in 1..Len(scored) :
                   /\ top_opts'[1].score <= scored[i].score
                   /\ scored[i].score < top_opts'[n].score
                          => \E j \in 1..n : top_opts'[j] = scored[i]]_vars

C9_Witness ==
    /\ pc = "rank" /\ ri = Len(PLATE_SIZES)
    /\ Len(top_opts) = TOP_OPTS
    /\ top_opts[1].score < top_opts[TOP_OPTS].score
    /\ Len(top_opts[1].plate) > 2

\* C10: the err of the plate just scored is the sum over the macros with a
\* non-zero target of (total - target)^2 (in quarters), and its sums are the
\* plate totals.
C10_ScoreIsSquaredError ==
    scored # <<>> =>
        LET e    == scored[Len(scored)]
            d(k) == PlateTotal(e.plate, k) - Half(targets[k])
            term(k) == IF targets[k] = 0 THEN 0 ELSE d(k) * d(k)
        IN  /\ e.score = term("calories") + term("protein") + term("carbs") + term("fat")
            /\ \A k \in MacroSet : e.sums[k] = PlateTotal(e.plate, k)

C10_Witness ==
    /\ scored # <<>>
    /\ targets["calories"] # 0 /\ targets["carbs"] = 0
    /\ scored[Len(scored)].sums["carbs"] > 0
    /\ scored[Len(scored)].score > 0
    /\ Len(scored[Len(scored)].plate) = 4

\* ---- time budget -------------------------------------------------------------
ActiveTarget == \E k \in MacroSet : targets[k] # 0
LoopPcs == {"for_r", "for_combo", "for_servs", "chk_combo", "chk_r"}

\* C11: when the time budget is already exceeded as the enumeration starts, with
\* at least two candidates and an active target, the loops are left at the first
\* clock check: no plate is accumulated, the ranker is never called and the
\* response is 504.
C11_ExpiredAtStartTimesOut ==
    (startExpired /\ Len(candidates) >= 2 /\ ActiveTarget) =>
        /\ pc \in LoopPcs \cup {"post", "done"}
        /\ ri <= 1 /\ ci <= 1 /\ si <= 1
        /\ scored = <<>> /\ top_opts = <<>> /\ offered = <<>>
        /\ rankerCalls = 0
        /\ (pc = "done" => resp.status = 504)

C11_Witness ==
    /\ startExpired /\ Len(candidates) >= 2 /\ ActiveTarget
    /\ pc = "done" /\ resp.status = 504
    /\ ri = 1 /\ ci = 1 /\ si = 1

\* C12: once a clock check finds the budget exceeded no further plate is
\* appended, the serving, combination and size loops are left one after the
\* other, and when a plate had been accumulated the request goes on to the
\* sort and the ranker and answers 200.
C12_BudgetCheckStep ==
    /\ (pc \in LoopPcs /\ expired') => scored' = scored
    /\ (pc = "for_servs" /\ expired') => pc' = "chk_combo"
    /\ (pc = "chk_combo" /\ expired) => pc' = "chk_r"
    /\ (pc = "chk_r" /\ expired) => pc' = "post"
    /\ (pc = "post" /\ expired /\ scored # <<>>) => (pc' = "rank" /\ top_opts' # <<>>)
    /\ (pc = "rank" /\ expired) => (pc' = "done" /\ resp'.status = 200)

C12_BudgetExceededLeavesLoops == [][C12_BudgetCheckStep]_vars

C12_Witness ==
    /\ pc = "done" /\ expired /\ ~startExpired
    /\ ri = 1 /\ Len(offered) >= 2
    /\ resp.status = 200

\* C13: the number of plates listed to the ranker never exceeds MAX_GPT_PLATES,
\* however many plates were accumulated.
C13_RankerListCapped == Len(offered) <= MAX_GPT_PLATES

C13_Witness ==
    /\ pc = "done" /\ rankerCalls = 1
    /\ ri = Len(PLATE_SIZES) /\ Len(candidates) = MaxCand
    /\ Len(offered) = TOP_OPTS

\* ---- the enumeration as a function of its inputs ---------------------------
PlatesOfSize(n, r) == Len(combinations(n, r)) * Len(product(r))

\* the i-th plate of the three nested loops over cands, scored against tgts
EnumAt(cands, tgts, i) ==
    LET n  == Len(cands)
        n2 == PlatesOfSize(n, 2)
        n3 == PlatesOfSize(n, 3)
        r  == IF i <= n2 THEN 2 ELSE IF i <= n2 + n3 THEN 3 ELSE 4
        k  == i - 1 - (IF r = 2 THEN 0 ELSE IF r = 3 THEN n2 ELSE n2 + n3)
        np == Len(product(r))
    IN  scored_entry(plate_at(cands, r, (k \div np) + 1, (k % np) + 1), tgts)

\* number of entries of s that a stable ascending sort puts before s[i]
Before(s, i) ==
    Cardinality({j \in 1..Len(s) :
                    \/ s[j].score < s[i].score
                    \/ s[j].score = s[i].score /\ j < i})

\* C14: without truncation the offered list is a function of the candidate
\* list and the targets alone: the accumulated list is the enumeration in loop
\* order, the list kept is its first 10 entries by (score, position), and the
\* list handed to the ranker is fixed before the ranker answers.  Two runs on
\* the same inputs therefore offer the same list in the same order.
C14_OfferedStep ==
    /\ (pc = "post" /\ pc' = "rank" /\ ~expired) =>
          /\ Len(scored) = TotalPlates(Len(candidates))
          /\ \A i \in 1..Len(scored) : scored[i] = EnumAt(candidates, targets, i)
          /\ Len(top_opts') = Min(Len(scored), TOP_OPTS)
          /\ \A p \in 1..Len(top_opts') :
                LET i == CHOOSE i \in 1..Len(scored) : scored[i] = top_opts'[p]
                IN  Before(scored, i) = p - 1
    /\ (pc = "rank" /\ pc' = "done") =>
          /\ top_opts' = top_opts
          /\ offered' = opts_payload(top_opts)

C14_OfferedListDeterministic == [][C14_OfferedStep]_vars

C14_Witness ==
    /\ pc = "done" /\ ~expired /\ targets = NoTargets
    /\ Len(candidates) = MaxCand
    /\ Len(offered) = TOP_OPTS
    /\ reply.type = "string"

\* the scenario: candidates A, B, C, D and targets calories 500, protein 30
ScenarioInputs ==
    /\ targets = [calories |-> 500, protein |-> 30, carbs |-> 0, fat |-> 0]
    /\ Len(candidates) = 4
    /\ [i \in 1..4 |-> candidates[i].name] = <<"A", "B", "C", "D">>
    /\ [i \in 1..4 |-> candidates[i].calories] = <<200, 300, 100, 250>>
    /\ [i \in 1..4 |-> candidates[i].protein] = <<20, 10, 5, 25>>

\* C15: in the scenario, without truncation, the plate {A x 1.0, B x 1.0} with
\* totals calories 500 and protein 30 and score 0 is among the plates offered
\* to the ranker.
C15_ScenarioPlateOffered ==
    (pc \in {"rank", "done"} /\ ~expired /\ ScenarioInputs) =>
        \E j \in 1..Len(top_opts) :
            LET o == top_opts[j]
            IN  /\ Len(o.plate) = 2
                /\ o.plate[1][1].name = "A" /\ o.plate[1][2] = Half(1)
                /\ o.plate[2][1].name = "B" /\ o.plate[2][2] = Half(1)
                /\ o.score = 0
                /\ o.sums["calories"] = Half(500) /\ o.sums["protein"] = Half(30)
                /\ (pc = "done" => offered[j] = payload_of(o))

C15_Witness ==
    /\ pc = "done" /\ ~expired /\ ScenarioInputs
    /\ resp.status = 200 /\ Len(offered) = TOP_OPTS

\* C16: with all four targets 0 every accumulated plate has score 0 and the
\* accumulated list never holds more plates than the cap.  (The claim as
\* stated; the code keeps every plate it enumerates until the sort.)
C16_NoTargetsKeptSetCapped ==
    (targets = NoTargets /\ pc \in LoopPcs \cup {"post"}) =>
        /\ Len(scored) <= MAX_GPT_PLATES
        /\ \A i \in 1..Len(scored) : scored[i].score = 0

\* ---- parse_num ---------------------------------------------------------------
\* C17: for every argument parse_num returns, without raising, an integer >= 0:
\* the leading digit run of a string that has one, otherwise 0.  (The claim as
\* stated; a negative number is returned as it is.)
C17_ParseNumNonNegative ==
    pn_out # NoResult =>
        /\ pn_out.exc = ""
        /\ pn_out.value[1] \in Nat
        /\ pn_x.t = "str" => pn_out.value[1] = FirstDigitRun(pn_x.s)
        /\ pn_x.t = "other" => pn_out.value[1] = 0

\* ---- get_menu ------------------------------------------------------------------
\* C18: when the fetch of a get_menu call has failed the cache and its fetch
\* time stay as they are, the call returns the cached snapshot if one was ever
\* stored, and raises MenuFetchError only when none was.  (The claim as stated;
\* a cached empty object counts as no snapshot in the code.)
C18_FailureStep ==
    \A t \in Threads :
        (gm_pc[t] = "except" /\ gm_pc'[t] = "ret") =>
            /\ _MENU_CACHE' = _MENU_CACHE
            /\ _MENU_CACHE_TIME' = _MENU_CACHE_TIME
            /\ gm_ret'[t] = IF _MENU_CACHE # NoneMenu THEN Returned(_MENU_CACHE)
                            ELSE Raised("MenuFetchError")

C18_StaleSnapshotOnFailure == [][C18_FailureStep]_vars

\* C19: at most one remote fetch is in flight at any time.  (The claim as
\* stated; get_menu takes no lock.)
C19_SingleRefreshInFlight == Cardinality({t \in Threads : InFlight(t)}) <= 1

\* C20: a get_menu call that starts while another thread is refreshing and
\* finds a snapshot in the cache returns it without fetching, and no call reads
\* the cache between the two stores of a refresh.  (The claim as stated.)
C20_ReaderStep ==
    \A t \in Threads :
        (gm_pc[t] = "idle" /\ gm_pc'[t] # "idle") =>
            /\ ((\E u \in Threads : Refreshing(u)) /\ Truthy(_MENU_CACHE))
                  => (gm_pc'[t] = "ret" /\ gm_ret'[t] = Returned(_MENU_CACHE))
            /\ ~ \E u \in Threads : gm_pc[u] = "store_time"

C20_ReadersSeeLastGood == [][C20_ReaderStep]_vars

\* ---- request validation ---------------------------------------------------------
BodyLacksField(data) == "hall" \notin DOMAIN data \/ "meal" \notin DOMAIN data

\* C21: a request whose body lacks hall or meal goes straight from the parse to
\* a 400 {error} response and from there to its end: no client is made, no
\* embedding, query, enumeration or ranker call happens.  Any other body is
\* accepted, and each absent target is 0.
C21_ValidationStep ==
    /\ (pc = "idle" /\ pc' # "idle") =>
          IF BodyLacksField(req')
          THEN /\ pc' = "done"
               /\ resp' = [status |-> 400, body |-> ErrorBody]
               /\ UNCHANGED <<clientCached, indexCached, candidates, hits, ri, scored,
                              top_opts, offered, rankerCalls>>
          ELSE /\ pc' = "embed"
               /\ targets' = [calories |-> DictGet(req', "calorieTarget", 0),
                              protein  |-> DictGet(req', "proteinTarget", 0),
                              carbs    |-> DictGet(req', "carbTarget", 0),
                              fat      |-> DictGet(req', "fatTarget", 0)]
    /\ (pc = "done" /\ BodyLacksField(req)) => pc' = "idle"

Lower(name) ==
    CASE name = "NDH" -> "ndh"
      [] name = "Lunch" -> "lunch"
      [] OTHER -> name

\* C23: the candidates of a request are those of the vectors whose hall and
\* meal equal the request's up to letter case.  (The claim as stated; the
\* filter compares the names as they are.)
C23_CaseInsensitiveMatch ==
    (pc = "for_r" /\ ri = 0) =>
        candidates = candidates_of(
            SelectSeq(Pick(hits, 1),
                      LAMBDA rec : /\ Lower(rec.id[1]) = Lower(req["hall"])
                                   /\ Lower(rec.id[2]) = Lower(req["meal"])))

\* ---- error handler ------------------------------------------------------------
\* the status the handler owes to an exception of class e
StatusFor(e) ==
    CASE e = "BadRequest" -> 400
      [] e = "InfeasiblePlateError" -> 422
      [] e \in {"MenuFetchError", "RequestException", "URLError", "openai", "pinecone"} -> 503
      [] OTHER -> 500

\* C22: every exception that reaches handle_any is answered with an {error}
\* body and one status: 400 for BadRequest, 422 for InfeasiblePlateError, 503
\* for MenuFetchError, RequestException, URLError and openai- or pinecone-typed
\* exceptions, 500 for every other exception.
C22_HandlerTable ==
    \A t \in Threads :
        he_resp[t] # NoResp =>
            /\ he_resp[t].body = ErrorBody
            /\ he_resp[t].status \in {400, 422, 503, 500}
            /\ he_resp[t].status = StatusFor(he_err[t])

C22_Witness ==
    \E t, u \in Threads :
        /\ he_err[t] = "pinecone" /\ he_resp[t].status = 503
        /\ he_err[u] = "KeyError" /\ he_resp[u].status = 500

C25_NoSharedStateWritten ==
    [][UNCHANGED <<_MENU_CACHE, _MENU_CACHE_TIME, clientCached, indexCached>>]_vars

\* the targets plan_plate reads from its own request body
TargetsOf(data) ==
    [calories |-> safe_json(data, "calorieTarget", <<0>>).value,
     protein  |-> safe_json(data, "proteinTarget", <<0>>).value,
     carbs    |-> safe_json(data, "carbTarget", <<0>>).value,
     fat      |-> safe_json(data, "fatTarget", <<0>>).value]

C25_Step ==
    /\ UNCHANGED <<_MENU_CACHE, _MENU_CACHE_TIME>>
    /\ clientCached => clientCached'
    /\ indexCached => indexCached'
    /\ pc' = "idle" =>
          /\ targets' = NoTargets /\ candidates' = <<>> /\ scored' = <<>>
          /\ top_opts' = <<>> /\ offered' = <<>> /\ reply' = NoReply
          /\ rankerCalls' = 0 /\ resp' = NoResp /\ ~expired'
          /\ ri' = 0 /\ ci' = 0 /\ si' = 0
    /\ pc' \in LoopPcs \cup {"post", "rank"} =>
          /\ targets' = TargetsOf(req')
          /\ candidates' = candidates_of(query(hits', req'["hall"], req'["meal"]))

\* C25 (amended): plan_plate leaves the menu cache unchanged; the only state
\* it shares with other requests is the memoised OpenAI client and Pinecone
\* index, which once built stay built; its targets and candidates come from
\* its own request body and query, and every local is gone when it returns.
C25_OnlyClientsShared == [][C25_Step]_vars

\* a request starts with the client and the index an earlier request built
C25_Witness ==
    /\ pc = "embed"
    /\ clientCached /\ indexCached
    /\ _MENU_CACHE = NoneMenu

\* ---- retries ------------------------------------------------------------------------
\* C26: the scrape is called at most MAX_RETRIES times; no call follows an
\* available result; the function returns before MAX_RETRIES calls only on an
\* available result; what it returns is a MealData for the requested hall and
\* meal, never None: the available result itself, and one with available =
\* False when the last attempt raised.
C26_RetryContract ==
    /\ rt_calls = Len(rt_hist)
    /\ rt_calls <= MAX_RETRIES
    /\ \A i \in 1..(Len(rt_hist) - 1) : rt_hist[i].exc \/ ~rt_hist[i].result.available
    /\ rt_pc = "ret" =>
         /\ rt_hist # <<>>
         /\ rt_ret.exc = "" /\ Len(rt_ret.value) = 1
         /\ LET r == rt_ret.value[1]
                o == rt_hist[Len(rt_hist)]
            IN  /\ r.kind = "MealData"
                /\ r.hall = rt_task[1] /\ r.meal = rt_task[2]
                /\ o.exc => (~r.available /\ Len(rt_hist) = MAX_RETRIES)
                /\ ~o.exc => r = o.result
                /\ Len(rt_hist) < MAX_RETRIES => (~o.exc /\ o.result.available)

C26_Witness ==
    /\ rt_pc = "ret"
    /\ Len(rt_hist) = MAX_RETRIES
    /\ ~rt_hist[1].exc /\ ~rt_hist[1].result.available
    /\ rt_hist[MAX_RETRIES].exc
    /\ ~rt_ret.value[1].available

\* ---- merge ----------------------------------------------------------------------------
\* the halls of a file, and the meals a file has for a hall
HallsIn(doc) == IF doc.isdict THEN DOMAIN doc.halls ELSE {}
MealsIn(doc, hall) ==
    IF hall \in HallsIn(doc) /\ doc.halls[hall].isdict
    THEN DOMAIN doc.halls[hall].meals ELSE {}

\* C27: the merged file has every hall of either input; a hall's meals are the
\* meals of either input; a meal of one input only is that input's entry and a
\* meal of both is the Nutrislice entry, in every hall and for any available
\* flags.
C27_MergeNutrisliceWins ==
    mg_out # NoResult =>
        LET out == mg_out.value[1]
        IN  /\ out.isdict
            /\ DOMAIN out.halls = HallsIn(mg_cbord) \cup HallsIn(mg_nutri)
            /\ \A hall \in DOMAIN out.halls :
                 /\ out.halls[hall].isdict
                 /\ DOMAIN out.halls[hall].meals =
                        MealsIn(mg_cbord, hall) \cup MealsIn(mg_nutri, hall)
                 /\ \A meal \in DOMAIN out.halls[hall].meals :
                      out.halls[hall].meals[meal] =
                          IF meal \in MealsIn(mg_nutri, hall)
                          THEN mg_nutri.halls[hall].meals[meal]
                          ELSE mg_cbord.halls[hall].meals[meal]

\* a hall outside PREFER_NUTRISLICE_HALLS with a meal in both inputs, available
\* in CBORD's and not in Nutrislice's, and a meal in CBORD's only
C27_Witness ==
    /\ mg_out # NoResult
    /\ LET hall == "Holy Cross College Dining Hall"
       IN  /\ "Breakfast" \in MealsIn(mg_cbord, hall) \cap MealsIn(mg_nutri, hall)
           /\ mg_cbord.halls[hall].meals["Breakfast"].available
           /\ ~mg_nutri.halls[hall].meals["Breakfast"].available
           /\ "Lunch" \in MealsIn(mg_cbord, hall) \ MealsIn(mg_nutri, hall)
           /\ mg_out.value[1].halls[hall].meals["Breakfast"].src = "nutrislice"
           /\ mg_out.value[1].halls[hall].meals["Lunch"].src = "cbord"

\* ---- truncated enumeration ----------------------------------------------------------
\* C28: the accumulated list starts empty and grows only by the next plate of the
\* fixed enumeration order (sizes 2, 3, 4; combinations in candidate order;
\* serving tuples in product order), so at every moment, the cut-off included,
\* it is a prefix of that order; once the budget is seen exceeded nothing more
\* is added.
C28_PrefixStep ==
    /\ (pc \notin LoopPcs /\ pc' \in LoopPcs) => scored' = <<>>
    /\ pc \in LoopPcs =>
          /\ \/ scored' = scored
             \/ /\ pc = "for_servs"
                /\ scored' = Append(scored, EnumAt(candidates, targets, Len(scored) + 1))
          /\ (expired \/ expired') => scored' = scored

C28_TruncatedIsPrefix == [][C28_PrefixStep]_vars

\* cut off inside the second combination of size 2
C28_Witness ==
    /\ pc = "post" /\ expired /\ ~startExpired
    /\ Len(candidates) >= 3
    /\ Len(scored) = Len(product(2)) + 1
    /\ scored[Len(scored)] = EnumAt(candidates, targets, Len(scored))

\* ---- order of the cache's contents ------------------------------------------------
\* C29: no step of any get_menu call moves the stored fetch time backwards or
\* replaces a non-empty snapshot by one of an older version of the menu.
C29_CacheStep ==
    /\ _MENU_CACHE_TIME' >= _MENU_CACHE_TIME
    /\ (Truthy(_MENU_CACHE) /\ Truthy(_MENU_CACHE')) => _MENU_CACHE'.v >= _MENU_CACHE.v

C29_CacheNeverGoesBack == [][C29_CacheStep]_vars

\* ---- the collecting loop ---------------------------------------------------------------
OkFutures == {i \in DOMAIN pl_fut : pl_fut[i].state = "ok"}

\* C30: each future is counted once: at every moment completed + failed is the
\* number of futures collected so far, and when the loop has ended it is the
\* number of submitted tasks, completed is the number of tasks that returned,
\* and meal_data_results holds one result for each of them and nothing else.
C30_EachTaskConsumedOnce ==
    /\ pl_completed + pl_failed = Cardinality(pl_yielded)
    /\ Len(pl_results) = pl_completed
    /\ pl_pc = "end" =>
         /\ \A i \in DOMAIN pl_fut : pl_fut[i].state \in DoneStates
         /\ pl_completed + pl_failed = Len(pl_fut)
         /\ pl_completed = Cardinality(OkFutures)
         /\ \A i \in OkFutures :
              Cardinality({k \in DOMAIN pl_results :
                              /\ pl_results[k].hall = pl_fut[i].task[1]
                              /\ pl_results[k].meal = pl_fut[i].task[2]}) = 1
         /\ \A k \in DOMAIN pl_results :
              \E i \in OkFutures : pl_results[k] = pl_fut[i].result

\* three tasks on two workers, collected out of submission order, one failed
C30_Witness ==
    /\ pl_pc = "end"
    /\ Len(pl_fut) = NumTasks
    /\ pl_workers = 2
    /\ pl_failed = 1 /\ pl_completed = NumTasks - 1
    /\ pl_results[1].hall = pl_fut[2].task[1]

====
